---- MODULE Spec2Model ----
(***************************************************************************)
(* A model of onboarding_assignment/app.py: the two validators, the        *)
(* response classifier check_response, create_contact_field, and the       *)
(* per-record workflow create_customer / create_billogram driven by main.  *)
(*                                                                         *)
(* Strings whose characters matter (emails, phone numbers) are sequences   *)
(* of one-character strings.  A call that returns is Return(v); a call     *)
(* that raises is Raise(exc, msg), exc being the Python exception class.   *)
(***************************************************************************)
EXTENDS Integers, Sequences, FiniteSets, TLC

VARIABLES pc, arg, ret, invoices, idx, calls, loglines, error,
          get_code, get_exc, post_code, bill_code

vars == <<pc, arg, ret, invoices, idx, calls, loglines, error,
          get_code, get_exc, post_code, bill_code>>

wfvars == <<invoices, idx, calls, loglines, error,
            get_code, get_exc, post_code, bill_code>>

\* ------------------------------------------------------------------ bounds
MaxEmailLen == 6
MaxPhoneLen == 12
MaxInvoices == 2

\* ------------------------------------------------------ outcomes of a call
None == "None"
Return(v) == [exc |-> "", value |-> v]
Raise(e, m) == [exc |-> e, msg |-> m]

\* --------------------------------------------------------------- characters
Letters == {"a"}
Digits == {"0", "7"}
WordChars == Letters \cup Digits \cup {"_"}
EmailAlphabet == {"a", "7", ".", "_", "%", "+", "-", "@", "|"}
PhoneAlphabet == {"0", "7"}

Str6(a, b, c, d, e, f) == <<a, b, c, d, e, f>>

AllIn(s, from, to, class) == \A k \in from..to : s[k] \in class

\* regex \b at offset p of s (between s[p] and s[p+1])
WordBoundary(s, p) ==
    (p >= 1 /\ s[p] \in WordChars) # (p < Len(s) /\ s[p + 1] \in WordChars)

\* ---------------------------------------------------------------- validators
LocalChars == Letters \cup Digits \cup {".", "_", "%", "+", "-"}
DomainChars == Letters \cup Digits \cup {".", "-"}
TldChars == Letters \cup {"|"}

\* re.fullmatch(r"\b[A-Za-z0-9._%+-]+@[A-Za-z0-9.-]+\.[A-Z|a-z]{2,}\b", email)
email_is_valid(email) ==
    \E at \in 1..Len(email), dot \in 1..Len(email) :
        /\ WordBoundary(email, 0)
        /\ at >= 2 /\ AllIn(email, 1, at - 1, LocalChars)
        /\ email[at] = "@"
        /\ dot >= at + 2 /\ AllIn(email, at + 1, dot - 1, DomainChars)
        /\ email[dot] = "."
        /\ Len(email) - dot >= 2 /\ AllIn(email, dot + 1, Len(email), TldChars)
        /\ WordBoundary(email, Len(email))

\* re.fullmatch(r"\b0\d{8,10}\b", phone_number)
phone_is_valid(phone_number) ==
    /\ Len(phone_number) >= 1
    /\ WordBoundary(phone_number, 0)
    /\ phone_number[1] = "0"
    /\ Len(phone_number) - 1 \in 8..10
    /\ AllIn(phone_number, 2, Len(phone_number), Digits)
    /\ WordBoundary(phone_number, Len(phone_number))

\* ------------------------------------------------- email_is_valid, applied
WorkflowIdle ==
    /\ invoices = <<>> /\ idx = 0 /\ calls = <<>> /\ loglines = <<>>
    /\ error = "" /\ get_code = 0 /\ get_exc = "" /\ post_code = 0
    /\ bill_code = 0

EmailInit ==
    /\ pc = "call"
    /\ \E n \in 0..MaxEmailLen : arg \in [1..n -> EmailAlphabet]
    /\ ret = "none"
    /\ WorkflowIdle

EmailIsValid ==
    /\ pc = "call"
    /\ ret' = email_is_valid(arg)
    /\ pc' = "done"
    /\ UNCHANGED <<arg, wfvars>>

SpecEmail == EmailInit /\ [][EmailIsValid]_vars

\* C8: email_is_valid(s) is true exactly when s is local@domain.tld with a
\* non-empty local part over letters, digits and . _ % + -, a non-empty
\* domain over letters, digits, . and -, and a tld of at least two
\* characters, all of them alphabetic.
EmailGrammar(s) ==
    \E at \in 1..Len(s), dot \in 1..Len(s) :
        /\ at >= 2 /\ AllIn(s, 1, at - 1, Letters \cup Digits \cup {".", "_", "%", "+", "-"})
        /\ s[at] = "@"
        /\ dot >= at + 2 /\ AllIn(s, at + 1, dot - 1, Letters \cup Digits \cup {".", "-"})
        /\ s[dot] = "."
        /\ Len(s) - dot >= 2 /\ AllIn(s, dot + 1, Len(s), Letters)

C8_EmailMatchesGrammar == pc = "done" => (ret <=> EmailGrammar(arg))

\* ------------------------------------------------------ create_contact_field
\* the mutant: the phone number is checked before the email
create_contact_field_phone_first(invoice) ==
    IF invoice.phone_number # <<>> /\ ~phone_is_valid(invoice.phone_number)
    THEN Raise("InvalidContact", <<"invalid format of phone number", invoice.phone_number>>)
    ELSE IF invoice.email # <<>> /\ ~email_is_valid(invoice.email)
    THEN Raise("InvalidContact", <<"Invalid format of email", invoice.email>>)
    ELSE Return([email |-> invoice.email, phone |-> invoice.phone_number])

\* the mutant: nothing is validated
create_contact_field_unchecked(invoice) ==
    Return([email |-> invoice.email, phone |-> invoice.phone_number])

create_contact_field(invoice) ==
    IF invoice.email # <<>> /\ ~email_is_valid(invoice.email)
    THEN Raise("InvalidContact", <<"Invalid format of email", invoice.email>>)
    ELSE LET email == IF invoice.email # <<>> THEN invoice.email ELSE <<>> IN
         IF invoice.phone_number # <<>> /\ ~phone_is_valid(invoice.phone_number)
         THEN Raise("InvalidContact",
                    <<"invalid format of phone number", invoice.phone_number>>)
         ELSE LET phone == IF invoice.phone_number # <<>>
                           THEN invoice.phone_number ELSE <<>> IN
              Return([email |-> email, phone |-> phone])

\* the email and phone_number columns the records are drawn from
EmailSamples ==
    { <<>>,
      Str6("a", "@", "a", ".", "a", "a"),       \* valid
      Str6("a", "@", "a", ".", "|", "a"),       \* accepted by the regex
      Str6(".", "@", "a", ".", "a", "a"),       \* no \b before the '.'
      <<"a", ".", "a", "a">> }                 \* no '@'

PhoneSamples ==
    { <<"+", "7", "0", "7", "0", "7", "0", "7", "0", "7", "0">>,
      <<"0", "7", "0", " ", "7", "0", "7", "0", "7", "0">> }

ContactInit ==
    /\ pc = "call"
    /\ \E e \in EmailSamples :
         \/ \E n \in 0..MaxPhoneLen : \E p \in [1..n -> PhoneAlphabet] :
                arg = [email |-> e, phone_number |-> p]
         \/ \E p \in PhoneSamples : arg = [email |-> e, phone_number |-> p]
    /\ ret = "none"
    /\ WorkflowIdle

CreateContactField ==
    /\ pc = "call"
    /\ ret' = create_contact_field(arg)
    /\ pc' = "done"
    /\ UNCHANGED <<arg, wfvars>>

SpecContact == ContactInit /\ [][CreateContactField]_vars

BadEmail(invoice) == invoice.email # <<>> /\ ~email_is_valid(invoice.email)
BadPhone(invoice) ==
    invoice.phone_number # <<>> /\ ~phone_is_valid(invoice.phone_number)

\* C9: create_contact_field checks the email first and then the phone and
\* the first failure wins: a non-empty invalid email raises InvalidContact
\* naming the email whatever the phone is; otherwise a non-empty invalid
\* phone number raises InvalidContact naming the phone number; otherwise the
\* result is {email: record.email, phone: record.phone_number}.
C9_EmailThenPhone ==
    pc = "done" =>
        /\ BadEmail(arg) =>
              /\ ret.exc = "InvalidContact"
              /\ ret.msg = <<"Invalid format of email", arg.email>>
        /\ (~BadEmail(arg) /\ BadPhone(arg)) =>
              /\ ret.exc = "InvalidContact"
              /\ ret.msg = <<"invalid format of phone number", arg.phone_number>>
        /\ (~BadEmail(arg) /\ ~BadPhone(arg)) =>
              /\ ret.exc = ""
              /\ ret.value = [email |-> arg.email, phone |-> arg.phone_number]

C9_Witness ==
    /\ pc = "done"
    /\ arg.email # <<>> /\ email_is_valid(arg.email)
    /\ BadPhone(arg)
    /\ ret.exc = "InvalidContact"
    /\ ret.msg[2] = arg.phone_number

\* ------------------------------------------------------------ check_response
\* A response: its status code, its content-type header, whether the body
\* parses as JSON and, of a JSON object, the status and data members.
Missing == "<missing>"              \* the header or member is absent
Null == "<null>"                    \* JSON null, None in Python
EmptyObject == "{}"                 \* an object without any member
FullObject == "{message, customer_no, id}"

Codes == {200, 201, 400, 403, 404, 410, 429, 499, 500, 503, 599, 600}
ContentTypes == {Missing, "application/json", "text/html"}
Statuses ==
    {Missing, Null, "", "OK", "INVALID_PARAMETER", "PERMISSION_DENIED",
     "INVALID_AUTH", "MISSING_AUTH", "NOT_AVAILABLE_YET", "NOT_FOUND"}
Datas == {Missing, Null, EmptyObject, FullObject}

Responses ==
    [status_code : Codes, content_type : ContentTypes, is_json : {TRUE},
     status : Statuses, data : Datas]
    \cup
    [status_code : Codes, content_type : ContentTypes, is_json : {FALSE},
     status : {Missing}, data : {Missing}]

\* Python truth of the status member
Truthy(status) == status \notin {Missing, Null, ""}
IsObject(data) == data \in {EmptyObject, FullObject}

DomainErrors ==
    {"ServiceMalfunctioningError", "NotAuthorizedError",
     "InvalidAuthenticationError", "RequestFormError", "PermissionDeniedError",
     "ObjectNotFoundError", "InvalidParameterError", "InvalidContact"}

\* the body of `if not response.status_code == 200:`
check_not_200(response) ==
    IF ~response.is_json
    THEN Raise("JSONDecodeError", <<"response.json()">>)
    ELSE IF response.status = Missing
    THEN Raise("KeyError", <<"status">>)
    ELSE IF response.status_code \in 500..599
    THEN IF response.content_type = Missing
         THEN Raise("KeyError", <<"content-type">>)
         ELSE IF response.content_type = "application/json"
         THEN IF ~IsObject(response.data)
              THEN Raise("AttributeError", <<"'NoneType' object has no attribute 'get'">>)
              ELSE Raise("ServiceMalfunctioningError",
                         <<"Billogram API reported a server error: {} - {}",
                           response.status>>)
         ELSE Raise("ServiceMalfunctioningError",
                    <<"Billogram API reported a server error">>)
    ELSE IF ~Truthy(response.status)
    THEN Raise("ServiceMalfunctioningError", <<"Response data missing status field">>)
    ELSE IF response.data = Missing
    THEN Raise("ServiceMalfunctioningError", <<"Response data missing data field">>)
    ELSE IF response.status_code = 400 /\ response.status = "INVALID_PARAMETER"
    THEN IF ~IsObject(response.data)
         THEN Raise("AttributeError", <<"'NoneType' object has no attribute 'get'">>)
         ELSE Raise("InvalidParameterError",
                    <<"A field in the request has an invalid value, type or is out of range: {}">>)
    ELSE IF response.status_code = 403
    THEN IF response.status = "PERMISSION_DENIED"
         THEN Raise("NotAuthorizedError", <<"Not allowed to perform the requested operation">>)
         ELSE IF response.status = "INVALID_AUTH"
         THEN Raise("InvalidAuthenticationError", <<"The user/key combination is wrong">>)
         ELSE IF response.status = "MISSING_AUTH"
         THEN Raise("RequestFormError", <<"No authentication data was given">>)
         ELSE Raise("PermissionDeniedError",
                    <<"Permission denied, status={}", response.status>>)
    ELSE IF response.status_code = 404
    THEN IF response.status = "NOT_AVAILABLE_YET"
         THEN Raise("ObjectNotFoundError", <<"Object not available yet">>)
         ELSE Raise("ObjectNotFoundError", <<"Object not found">>)
    ELSE Return(None)

\* the mutant: a 200 answer yields the body's data member
check_response_returns_data(response) ==
    IF response.status_code = 200 THEN Return(response.data)
    ELSE check_not_200(response)

check_response(response) ==
    IF response.status_code = 200 THEN Return(None)
    ELSE check_not_200(response)

ClassifyInit ==
    /\ pc = "call"
    /\ arg \in Responses
    /\ ret = "none"
    /\ WorkflowIdle

CheckResponse ==
    /\ pc = "call"
    /\ ret' = check_response(arg)
    /\ pc' = "done"
    /\ UNCHANGED <<arg, wfvars>>

SpecClassify == ClassifyInit /\ [][CheckResponse]_vars

\* C4 as stated: a 200 answer with a truthy status and a data object raises
\* no error and check_response returns the body's data object.
C4_ReturnsData ==
    (pc = "done" /\ arg.status_code = 200 /\ arg.is_json
        /\ Truthy(arg.status) /\ IsObject(arg.data))
    => (ret.exc = "" /\ ret.value = arg.data)

\* C4 as amended: a 200 answer with a truthy status and a data object raises
\* no error and check_response returns None.
C4_ReturnsNone ==
    (pc = "done" /\ arg.status_code = 200 /\ arg.is_json
        /\ Truthy(arg.status) /\ IsObject(arg.data))
    => (ret.exc = "" /\ ret.value = None)

C4_Witness ==
    /\ pc = "done" /\ arg.status_code = 200 /\ arg.is_json
    /\ arg.status = "OK" /\ arg.data = FullObject
    /\ ret.exc = ""

\* C5: a non-200 answer whose JSON body has no status member, or a falsy
\* one, raises ServiceMalfunctioningError reporting the missing status field.
C5_MissingStatus ==
    (pc = "done" /\ arg.status_code # 200 /\ arg.is_json /\ ~Truthy(arg.status))
    => /\ ret.exc = "ServiceMalfunctioningError"
       /\ ret.msg = <<"Response data missing status field">>

\* C6: a non-200 answer (any code, any content-type) whose JSON body has a
\* truthy status and no data member raises ServiceMalfunctioningError.
C6_MissingData ==
    (pc = "done" /\ arg.status_code # 200 /\ arg.is_json
        /\ arg.content_type # Missing
        /\ Truthy(arg.status) /\ arg.data = Missing)
    => ret.exc = "ServiceMalfunctioningError"

\* C7: for a non-200 answer with a truthy status S and a data member (an
\* object or null) the outcome is a function of the code and S: 5xx raises
\* ServiceMalfunctioningError; 400 with INVALID_PARAMETER raises
\* InvalidParameterError; 403 raises NotAuthorizedError, InvalidAuthenticationError,
\* RequestFormError or PermissionDeniedError by S; 404 raises
\* ObjectNotFoundError; anything else returns normally.
C7_Expected(code, S) ==
    IF code \in 500..599 THEN "ServiceMalfunctioningError"
    ELSE IF code = 400 /\ S = "INVALID_PARAMETER" THEN "InvalidParameterError"
    ELSE IF code = 403 /\ S = "PERMISSION_DENIED" THEN "NotAuthorizedError"
    ELSE IF code = 403 /\ S = "INVALID_AUTH" THEN "InvalidAuthenticationError"
    ELSE IF code = 403 /\ S = "MISSING_AUTH" THEN "RequestFormError"
    ELSE IF code = 403 THEN "PermissionDeniedError"
    ELSE IF code = 404 THEN "ObjectNotFoundError"
    ELSE ""

C7_OutcomeTable ==
    (pc = "done" /\ arg.status_code # 200 /\ arg.is_json
        /\ arg.content_type # Missing
        /\ Truthy(arg.status) /\ arg.data \in {Null, EmptyObject, FullObject})
    => ret.exc = C7_Expected(arg.status_code, arg.status)

\* ------------------------------------------------------------------ workflow
send_method(invoice) ==
    IF invoice.email # <<>> THEN "Email"
    ELSE IF invoice.phone_number # <<>> THEN "SMS"
    ELSE "Letter"

\* response_body = response.json(); response_body["data"][key]
read_data(response, key) ==
    IF ~response.is_json THEN Raise("JSONDecodeError", <<"response.json()">>)
    ELSE IF response.data = Missing THEN Raise("KeyError", <<"data">>)
    ELSE IF response.data = Null
    THEN Raise("TypeError", <<"'NoneType' object is not subscriptable">>)
    ELSE IF response.data = EmptyObject THEN Raise("KeyError", <<key>>)
    ELSE Return(None)

\* the mutant: every domain error of the lookup leads to a customer POST
except_InvoicingError(exc) == exc \in DomainErrors

\* `except ObjectNotFoundError:` around the classification of the GET
except_ObjectNotFoundError(exc) == exc = "ObjectNotFoundError"

\* What one run of create_customer does for record number rec, given the
\* answers the service gives to the GET and (if it is issued) to the POST.
create_customer(invoice, rec, get_response, post_response) ==
    LET get_call == [rec |-> rec, request |-> "GET /customer", method |-> ""]
        post_call == [rec |-> rec, request |-> "POST /customer", method |-> ""]
        checked == check_response(get_response)
        looked_up == [calls |-> <<get_call>>,
                      get_code |-> get_response.status_code,
                      get_exc |-> checked.exc,
                      post_code |-> 0, loglines |-> <<>>, exc |-> checked.exc]
    IN  IF ~except_ObjectNotFoundError(checked.exc) THEN looked_up
        ELSE LET contact == create_contact_field(invoice) IN
             IF contact.exc # "" THEN [looked_up EXCEPT !.exc = contact.exc]
             ELSE LET posted == check_response(post_response)
                      body == read_data(post_response, "customer_no")
                      exc == IF posted.exc # "" THEN posted.exc ELSE body.exc
                  IN  [looked_up EXCEPT
                         !.calls = <<get_call, post_call>>,
                         !.post_code = post_response.status_code,
                         !.exc = exc,
                         !.loglines = IF exc = ""
                                      THEN <<[rec |-> rec, line |-> "Created customer"]>>
                                      ELSE <<>>]

\* What one run of create_billogram does for record number rec.
create_billogram(invoice, rec, response) ==
    LET call == [rec |-> rec, request |-> "POST /billogram",
                 method |-> send_method(invoice)]
        posted == check_response(response)
        body == read_data(response, "id")
        exc == IF posted.exc # "" THEN posted.exc ELSE body.exc
    IN  [calls |-> <<call>>, bill_code |-> response.status_code, exc |-> exc,
         loglines |-> IF exc = ""
                      THEN <<[rec |-> rec, line |-> "Billogram created and sent"]>>
                      ELSE <<>>]

\* the mutant: main logs the exception and goes on with the next record
main_log_and_continue == "loop"

\* main catches nothing: an exception raised in the loop body ends the run
main_on_exception == "aborted"

\* the records of the file, and the answers of the service
ValidEmail == Str6("a", "@", "a", ".", "a", "a")
InvalidEmail == <<"a", ".", "a", "a">>
ValidPhone == <<"0", "7", "0", "7", "0", "7", "0", "7", "0", "7">>
InvalidPhone == <<"7", "0", "7">>

InvoiceKinds ==
    [email : {<<>>, ValidEmail, InvalidEmail},
     phone_number : {<<>>, ValidPhone, InvalidPhone}]

WfCodes == {200, 403, 404, 410, 500}

WfResponses ==
    {r \in Responses :
        /\ r.status_code \in WfCodes
        /\ r.content_type = "application/json"
        /\ r.is_json
        /\ r.status \in {Missing, "OK"}
        /\ r.data \in {Missing, Null, FullObject}}

Init ==
    /\ pc = "loop"
    /\ \E n \in 0..MaxInvoices : invoices \in [1..n -> InvoiceKinds]
    /\ idx = 0
    /\ calls = <<>> /\ loglines = <<>> /\ error = ""
    /\ get_code = 0 /\ get_exc = "" /\ post_code = 0 /\ bill_code = 0
    /\ arg = "-" /\ ret = "-"

\* `for invoice in invoices:` takes the next row, or the loop ends
NextInvoice ==
    /\ pc = "loop"
    /\ IF idx < Len(invoices)
       THEN /\ idx' = idx + 1
            /\ pc' = "create_customer"
            /\ get_code' = 0 /\ get_exc' = "" /\ post_code' = 0 /\ bill_code' = 0
       ELSE /\ pc' = "returned"
            /\ UNCHANGED <<idx, get_code, get_exc, post_code, bill_code>>
    /\ UNCHANGED <<arg, ret, invoices, calls, loglines, error>>

CreateCustomer ==
    /\ pc = "create_customer"
    /\ \E get_response \in WfResponses, post_response \in WfResponses :
         LET r == create_customer(invoices[idx], idx, get_response, post_response) IN
            /\ calls' = calls \o r.calls
            /\ loglines' = loglines \o r.loglines
            /\ get_code' = r.get_code
            /\ get_exc' = r.get_exc
            /\ post_code' = r.post_code
            /\ error' = r.exc
            /\ pc' = IF r.exc = "" THEN "create_billogram" ELSE main_on_exception
    /\ UNCHANGED <<arg, ret, invoices, idx, bill_code>>

CreateBillogram ==
    /\ pc = "create_billogram"
    /\ \E response \in WfResponses :
         LET r == create_billogram(invoices[idx], idx, response) IN
            /\ calls' = calls \o r.calls
            /\ loglines' = loglines \o r.loglines
            /\ bill_code' = r.bill_code
            /\ error' = r.exc
            /\ pc' = IF r.exc = "" THEN "loop" ELSE main_on_exception
    /\ UNCHANGED <<arg, ret, invoices, idx, get_code, get_exc, post_code>>

Next == NextInvoice \/ CreateCustomer \/ CreateBillogram

Spec == Init /\ [][Next]_vars

\* -------------------------------------------------------- workflow properties
BadContact(invoice) == BadEmail(invoice) \/ BadPhone(invoice)

\* the requests issued so far for record number rec
CallsOf(rec) ==
    {calls[k].request : k \in {j \in 1..Len(calls) : calls[j].rec = rec}}

\* create_customer has run to its end for the current record
CustomerStepDone == idx >= 1 /\ pc # "create_customer"

\* C1 as stated: a record with a non-empty invalid email or phone number
\* fails with InvalidContact before any HTTP request is issued for it.
C1_NoRequestAtAll ==
    (CustomerStepDone /\ BadContact(invoices[idx]))
    => (pc = "aborted" /\ error = "InvalidContact" /\ CallsOf(idx) = {})

\* C1 as amended: for such a record the GET customer request is issued, and
\* when its answer classifies as ObjectNotFoundError the workflow fails with
\* InvalidContact before any POST (customer or billogram) is issued.
C1_NoPostAfterNotFound ==
    (CustomerStepDone /\ BadContact(invoices[idx]))
    => /\ "GET /customer" \in CallsOf(idx)
       /\ get_exc = "ObjectNotFoundError" =>
             /\ pc = "aborted" /\ error = "InvalidContact"
             /\ CallsOf(idx) = {"GET /customer"}

C1_Witness ==
    /\ CustomerStepDone /\ BadContact(invoices[idx])
    /\ get_exc = "ObjectNotFoundError"
    /\ error = "InvalidContact"
    /\ CallsOf(idx) = {"GET /customer"}

\* the domain errors of the lookup that create_customer does not handle
OtherDomainErrors == DomainErrors \ {"ObjectNotFoundError", "InvalidContact"}

C2_OtherErrorsPropagate ==
    get_exc \in OtherDomainErrors =>
        /\ pc = "aborted" /\ error = get_exc
        /\ CallsOf(idx) = {"GET /customer"}

\* C2 as stated: the customer POST is issued if and only if classifying the
\* GET answer raised ObjectNotFoundError; any other domain error of the GET
\* propagates and neither POST is issued for the record.
C2_PostIffNotFound ==
    CustomerStepDone =>
        /\ ("POST /customer" \in CallsOf(idx)) <=> (get_exc = "ObjectNotFoundError")
        /\ C2_OtherErrorsPropagate

\* C2 as amended: the customer POST is issued if and only if classifying the
\* GET answer raised ObjectNotFoundError and create_contact_field did not
\* raise InvalidContact; any other domain error of the GET propagates and
\* neither POST is issued for the record.
C2_PostIffNotFoundAndValid ==
    CustomerStepDone =>
        /\ ("POST /customer" \in CallsOf(idx)) <=>
              (get_exc = "ObjectNotFoundError" /\ ~BadContact(invoices[idx]))
        /\ C2_OtherErrorsPropagate

C2_Witness ==
    /\ CustomerStepDone
    /\ get_exc = "PermissionDeniedError"
    /\ pc = "aborted" /\ error = "PermissionDeniedError"
    /\ CallsOf(idx) = {"GET /customer"}

\* C3: records are processed in file order and a failure ends the run: the
\* requests for record i all come before those for record i+1, and once a
\* record's workflow has raised no further request is issued.
C3_FileOrder ==
    /\ \A k \in 1..Len(calls) : calls[k].rec \in 1..idx
    /\ \A k \in 1..(Len(calls) - 1) : calls[k].rec <= calls[k + 1].rec

C3_SequentialAndAborting ==
    /\ []C3_FileOrder
    /\ [][error # "" => (calls' = calls /\ idx' = idx)]_vars

C3_Witness ==
    /\ pc = "aborted" /\ error # ""
    /\ idx = 2 /\ Len(invoices) >= 2
    /\ CallsOf(1) # {} /\ CallsOf(2) # {}

\* C10: a record is fully processed (both steps returned and the "Billogram
\* created and sent" line was logged) only if the GET customer answer had
\* status 200, or had 404 and the customer POST answer had 200, and the
\* billogram POST answer had 200.
FullyProcessed ==
    /\ pc = "loop" /\ idx >= 1
    /\ [rec |-> idx, line |-> "Billogram created and sent"] \in
          {loglines[k] : k \in 1..Len(loglines)}

C10_ProcessedOnlyIfEnsured ==
    FullyProcessed =>
        /\ get_code = 200 \/ (get_code = 404 /\ post_code = 200)
        /\ bill_code = 200

====
